---- MODULE Spec2Model ----
(***************************************************************************)
(* TaskMasterPro2: the client-side data-synchronization layer (query cache *)
(* + optimistic mutations + GraphQL/REST fallback) together with the REST  *)
(* backend's in-memory store.                                              *)
(*                                                                         *)
(* The repository holds several revisions of the same components.  Two are *)
(* modelled, selected by the variable rev:                                 *)
(*   "rest"  TaskItem of unnamed/part_010 (REST only, key ['/api/tasks']), *)
(*           its list being the ['/api/tasks'] query of TaskContext        *)
(*   "gql"   TaskItem of TaskList.tsx:844-1080 (GraphQL first, REST second,*)
(*           key ['getUserTasks','3']) with the TaskList of part_009       *)
(* CreateTaskModal.tsx:22-445, TaskContext.tsx:160-357 and the category    *)
(* modal (CategoryManageModal.tsx for "rest", part_007 for "gql") run with *)
(* both.                                                                   *)
(***************************************************************************)
EXTENDS Integers, Sequences, FiniteSets, TLC

(* ---------------------------- bounds ----------------------------------- *)
InitTasks == 1      \* tasks in the store when the page loads
MaxTasks == 2       \* ids the store may hand out (taskId stops growing)
MaxMut == 1         \* mutation invocations in one behaviour

(* ------------------------ program constants ---------------------------- *)
MutationRetry == 1  \* queryClient.ts:144  mutations.retry
QueryRetry == 2     \* queryClient.ts:140  queries.retry

(* ------------------------------ keys ----------------------------------- *)
KApiTasks == "/api/tasks"
KGetUserTasks == "getUserTasks"
KApiCategories == "/api/categories"
KGetUserCategories == "getUserCategories"
KTasks == "tasks"   \* ['tasks', activeCategory, activeFilter, filterType]
TaskKeys == {KApiTasks, KGetUserTasks}
CategoryKeys == {KApiCategories, KGetUserCategories}
Keys == TaskKeys \cup CategoryKeys \cup {KTasks}

(* ------------------------ strings as sequences ------------------------- *)
Empty == <<>>
Blank == <<" ">>
Milk == <<"m">>
Eggs == <<"e">>
Titles == {Empty, Blank, Milk}
Shop == <<"s">>

RECURSIVE TrimLeft(_)
TrimLeft(s) == IF s # <<>> /\ Head(s) = " " THEN TrimLeft(Tail(s)) ELSE s

RECURSIVE TrimRight(_)
TrimRight(s) ==
  IF s # <<>> /\ s[Len(s)] = " " THEN TrimRight(SubSeq(s, 1, Len(s) - 1)) ELSE s

\* String.prototype.trim
trim(s) == TrimRight(TrimLeft(s))

(* --------------------------- sequences --------------------------------- *)
RECURSIVE Filter(_, _)
\* Array.prototype.filter with the predicate "id differs from id"
Filter(s, id) ==
  IF s = <<>> THEN <<>>
  ELSE IF Head(s).id # id THEN <<Head(s)>> \o Filter(Tail(s), id)
       ELSE Filter(Tail(s), id)

Ids(s) == {s[i].id : i \in 1..Len(s)}

(* --------------------------- cache values ------------------------------ *)
\* what a query-cache entry can hold: nothing yet, the array a queryFn
\* returned, or a GraphQL envelope {data: {getUserTasks: [...]}}
Undefined == [shape |-> "undefined", items |-> <<>>]
Array(items) == [shape |-> "array", items |-> items]

VARIABLES
  migration,    \* the run of the PostgreSQL -> DynamoDB migration script
  budget,       \* mutations the user can still invoke in this behaviour
  rev,          \* which revision of TaskItem / TaskList / category modal runs
  storage,      \* which IStorage the routes use: MemStorage or DatabaseStorage
  tasks,        \* backend store: MemStorage.tasks in insertion order
  taskId,       \* MemStorage.taskId
  categories,   \* backend store: the categories of the session user
  categoryId,   \* MemStorage.categoryId
  cache,        \* QueryClient: key -> value
  fetches,      \* QueryClient: key -> in-flight marker and failure count
  errorFlag,    \* useQuery(...).error per key
  failed,       \* keys whose latest settled fetch failed at its transport
  supplied,     \* keys whose latest settled fetch was given the list
  activeFilter, \* TaskContext: the filter chosen in the sidebar ('': none)
  res,          \* the response of the latest PATCH / DELETE /api/tasks/:id
  muts,         \* one record per useMutation(...).mutate() call
  formError     \* the forms whose latest submission was turned down

vars == <<migration, rev, res, activeFilter, supplied, budget, storage, tasks, taskId, categories, categoryId, cache, fetches, errorFlag, failed, muts,
          formError>>

(* ------------------------------ Init ----------------------------------- *)
\* categoryId: null
NoCategory == 0

\* a task as the client builds it and the store keeps it, with the defaults
\* priority 'medium' and no category
NewTask(id, title, completed) ==
  [id |-> id, title |-> title, completed |-> completed,
   categoryId |-> NoCategory, priority |-> "medium"]

\* the priorities of the task form and of the sidebar filters
Priorities == {"low", "medium", "high"}

\* String.prototype.toUpperCase / toLowerCase on the priorities
toUpperCase(p) ==
  CASE p \in {"low", "LOW"} -> "LOW"
    [] p \in {"medium", "MEDIUM"} -> "MEDIUM"
    [] OTHER -> "HIGH"

toLowerCase(p) ==
  CASE p \in {"low", "LOW"} -> "low"
    [] p \in {"medium", "MEDIUM"} -> "medium"
    [] OTHER -> "high"

\* the values of the task form: title, category (NoCategory: '') and priority
Form(title) == [title |-> title, category |-> NoCategory, priority |-> "medium"]

\* editingTask when the modal was opened from the "new task" button
NoTask == NewTask(0, Empty, FALSE)

\* TaskContext.tsx: useState<string>('') for activeFilter
NoFilter == ""

\* no request has been answered yet
NoResponse == [seq |-> 0, route |-> "none", id |-> 0, status |-> 0, task |-> NoTask]

\* no id: undefined, null, or a mapping entry that was never written
NoId == ""

\* the migration script has not been started
NoMigration ==
  [version |-> "none", pc |-> "idle", i |-> 0,
   data |-> [users |-> <<>>, categories |-> <<>>, tasks |-> <<>>],
   userIdMapping |-> <<>>, categoryIdMapping |-> <<>>,
   users |-> <<>>, categories |-> <<>>, tasks |-> <<>>,
   failed |-> [users |-> {}, categories |-> {}, tasks |-> {}]]

IdleFetch == [status |-> "idle", failureCount |-> 0]

\* the page loads over a store that holds the categories cs and the tasks
\* ts, and the user goes on to invoke up to n mutations
InitOver(st, cs, ts, n) ==
  /\ rev \in {"rest", "gql"}
  /\ budget = n
  /\ tasks = ts
  /\ taskId = Len(ts) + 1
  /\ storage \in st
  /\ categories = cs
  /\ categoryId = Len(cs) + 1
  /\ cache = [k \in Keys |-> Undefined]
  /\ fetches = [k \in Keys |-> IdleFetch]
  /\ errorFlag = [k \in Keys |-> FALSE]
  /\ failed = {}
  /\ supplied = {}
  /\ activeFilter = NoFilter
  /\ res = NoResponse
  /\ migration = NoMigration
  /\ muts = <<>>
  /\ formError = {}

\* the same, the store holding InitTasks tasks of category c
InitWith(st, cs, c, n) ==
  InitOver(st, cs, [i \in 1..InitTasks |-> [NewTask(i, Milk, FALSE) EXCEPT !.categoryId = c]], n)

Init == InitWith({"mem"}, <<>>, NoCategory, MaxMut)

(* --------------------------- QueryClient ------------------------------- *)
\* queryClient.cancelQueries({queryKey}): the in-flight fetch of the key, if
\* any, is dropped; its response will not be written to the cache
cancelQueries(f, k) == [f EXCEPT ![k] = IdleFetch]

\* queryClient.setQueryData(key, value)
setQueryData(c, k, v) == [c EXCEPT ![k] = v]

\* queryClient.getQueryData(key)
getQueryData(c, k) == c[k]

(* --------------------- which list is on the screen --------------------- *)
\* the key the TaskList of the running revision renders its TaskItems from
ListKey == IF rev = "gql" THEN KGetUserTasks ELSE KApiTasks

\* the key the category modal of the running revision lists from
CategoryKey == IF rev = "gql" THEN KGetUserCategories ELSE KApiCategories

\* the TaskItems on the screen: one per element of the list query's data
Displayed == IF cache[ListKey].shape = "array" THEN cache[ListKey].items ELSE <<>>

(* ------------------- optimistic updaters (onMutate) -------------------- *)
\* a toggle updater that sets the flag of every task of the list
toggleUpdaterRest_all(old, id, newCompletedState) ==
  IF old.shape = "undefined" THEN old
  ELSE [old EXCEPT !.items =
          [i \in 1..Len(old.items) |->
             [old.items[i] EXCEPT !.completed = newCompletedState]]]

\* part_010:119-124   old => old ? old.map(flip task.id) : old
toggleUpdaterRest(old, id, newCompletedState) ==
  IF old.shape = "undefined" THEN old
  ELSE [old EXCEPT !.items =
          [i \in 1..Len(old.items) |->
             IF old.items[i].id = id
             THEN [old.items[i] EXCEPT !.completed = newCompletedState]
             ELSE old.items[i]]]

\* TaskList.tsx:978-992  only an envelope {data:{getUserTasks}} is edited
toggleUpdaterGql(old, id, newCompletedState) ==
  IF old.shape # "envelope" THEN old
  ELSE [old EXCEPT !.items =
          [i \in 1..Len(old.items) |->
             IF old.items[i].id = id
             THEN [old.items[i] EXCEPT !.completed = newCompletedState]
             ELSE old.items[i]]]

\* part_010:43-47   old => old ? old.filter(t => t.id !== task.id) : old
deleteUpdaterRest(old, id) ==
  IF old.shape = "undefined" THEN old
  ELSE [old EXCEPT !.items = Filter(old.items, id)]

\* TaskList.tsx:866-878
deleteUpdaterGql(old, id) ==
  IF old.shape # "envelope" THEN old
  ELSE [old EXCEPT !.items = Filter(old.items, id)]

\* CreateTaskModal.tsx:144-147   old => old ? [tempTask, ...old] : [tempTask]
createUpdater(old, tempTask) ==
  IF old.shape = "undefined" THEN Array(<<tempTask>>)
  ELSE [old EXCEPT !.items = <<tempTask>> \o old.items]

\* CreateTaskModal.tsx:300-305   old => old ? old.map(swap editingTask.id) :
\* [optimisticTask]
updateUpdater(old, optimisticTask) ==
  IF old.shape = "undefined" THEN Array(<<optimisticTask>>)
  ELSE [old EXCEPT !.items =
          [i \in 1..Len(old.items) |->
             IF old.items[i].id = optimisticTask.id THEN optimisticTask
             ELSE old.items[i]]]

(* ----------------------------- mutations ------------------------------- *)
TaskMutations == {"toggle", "delete", "create", "update"}

\* the key whose value onMutate edits and onError restores
mutationKey(kind) ==
  CASE kind \in {"create", "update"} -> KApiTasks
    [] kind \in {"toggle", "delete"} -> (IF rev = "gql" THEN KGetUserTasks ELSE KApiTasks)
    [] OTHER -> CategoryKey

\* the first transport mutationFn calls
firstTransport(kind) ==
  CASE kind \in {"create", "update"} -> "gql"
    [] OTHER -> (IF rev = "gql" THEN "gql" ELSE "rest")

\* does mutationFn hold a REST call after its GraphQL call?
hasFallback(kind) == kind \in TaskMutations /\ firstTransport(kind) = "gql"

\* mutationFn has returned no task: still running, threw, or the operation
\* returns none
NoResult == [id |-> 0, idType |-> "none", priority |-> "none"]

NewMutation(kind, id, newCompletedState, title, previousTasks, before, edited) ==
  [kind |-> kind, id |-> id, newCompletedState |-> newCompletedState, title |-> title,
   pc |-> firstTransport(kind), failureCount |-> 0,
   gqlSent |-> 0, restSent |-> 0, last |-> "none", notFound |-> FALSE,
   previousTasks |-> previousTasks, before |-> before, edited |-> edited,
   inval |-> {}, timer |-> "none", toast |-> "none",
   categoryId |-> NoCategory, priority |-> "medium", serverId |-> 0,
   result |-> NoResult]

\* onMutate of toggleCompletionMutation: part_010:107-128, TaskList.tsx:966-996
toggleCompletionMutation_onMutate(task) ==
  LET k == mutationKey("toggle")
      newCompletedState == ~task.completed
      previousTasks == getQueryData(cache, k)
  IN /\ fetches' = cancelQueries(fetches, k)
     /\ cache' = setQueryData(cache, k,
                   IF rev = "gql"
                   THEN toggleUpdaterGql(cache[k], task.id, newCompletedState)
                   ELSE toggleUpdaterRest(cache[k], task.id, newCompletedState))
     /\ muts' = Append(muts, NewMutation("toggle", task.id, newCompletedState,
                                         task.title, previousTasks, cache[k], cache'[k]))

\* onMutate of deleteTaskMutation: part_010:35-51, TaskList.tsx:858-882
deleteTaskMutation_onMutate(task) ==
  LET k == mutationKey("delete")
      previousTasks == getQueryData(cache, k)
  IN /\ fetches' = cancelQueries(fetches, k)
     /\ cache' = setQueryData(cache, k,
                   IF rev = "gql" THEN deleteUpdaterGql(cache[k], task.id)
                   ELSE deleteUpdaterRest(cache[k], task.id))
     /\ muts' = Append(muts, NewMutation("delete", task.id, task.completed,
                                         task.title, previousTasks, cache[k], cache'[k]))

\* `temp-${Date.now()}`: a temporary id, never a store id (store ids are >= 1)
tempId == 0 - (Len(muts) + 1)

\* onMutate of createTaskMutation: CreateTaskModal.tsx:108-155
createTaskMutation_onMutate(data) ==
  LET k == mutationKey("create")
      previousTasks == getQueryData(cache, k)
      tempTask == [NewTask(tempId, data.title, FALSE) EXCEPT
                     !.categoryId = data.category, !.priority = data.priority]
  IN /\ fetches' = cancelQueries(fetches, k)
     /\ cache' = setQueryData(cache, k, createUpdater(cache[k], tempTask))
     /\ muts' = Append(muts,
                  [NewMutation("create", tempId, FALSE, data.title,
                               previousTasks, cache[k], cache'[k])
                     EXCEPT !.categoryId = data.category, !.priority = data.priority])

\* onMutate of updateTaskMutation: CreateTaskModal.tsx:267-313
updateTaskMutation_onMutate(editingTask, data) ==
  LET k == mutationKey("update")
      previousTasks == getQueryData(cache, k)
      optimisticTask == [editingTask EXCEPT !.title = data.title,
                           !.categoryId = data.category, !.priority = data.priority]
  IN /\ fetches' = cancelQueries(fetches, k)
     /\ cache' = setQueryData(cache, k, updateUpdater(cache[k], optimisticTask))
     /\ muts' = Append(muts,
                  [NewMutation("update", editingTask.id, editingTask.completed,
                               data.title, previousTasks, cache[k], cache'[k])
                     EXCEPT !.categoryId = data.category, !.priority = data.priority])

\* handleToggleCompletion: part_010:197-201, TaskList.tsx:1094-1098
handleToggleCompletion ==
  /\ budget > 0 /\ budget' = budget - 1
  /\ \E i \in 1..Len(Displayed) : toggleCompletionMutation_onMutate(Displayed[i])
  /\ UNCHANGED <<migration, rev, res, activeFilter, supplied, storage, tasks, taskId, categories, categoryId, errorFlag, failed, formError>>

\* onConfirm of DeleteConfirmModal: part_010:323-326, TaskList.tsx:1220-1223
onConfirm ==
  /\ budget > 0 /\ budget' = budget - 1
  /\ \E i \in 1..Len(Displayed) : deleteTaskMutation_onMutate(Displayed[i])
  /\ UNCHANGED <<migration, rev, res, activeFilter, supplied, storage, tasks, taskId, categories, categoryId, errorFlag, failed, formError>>

\* a schema without the min(1) on title
createTaskSchema_noMin(title) == TRUE

\* createTaskSchema: title: z.string().min(1)   CreateTaskModal.tsx:11-18
createTaskSchema(title) == Len(title) >= 1

\* form.handleSubmit(onSubmit): onSubmit runs only if the resolver accepts
\* CreateTaskModal.tsx:65-75, 423-439, 473
onSubmit(editingTask, data) ==
    IF createTaskSchema(data.title)
    THEN /\ budget > 0 /\ budget' = budget - 1
         /\ IF editingTask = NoTask THEN createTaskMutation_onMutate(data)
            ELSE updateTaskMutation_onMutate(editingTask, data)
         /\ formError' = formError \ {"title"}
         /\ UNCHANGED <<migration, rev, res, activeFilter, supplied, storage, tasks, taskId, categories, categoryId, errorFlag, failed>>
    ELSE /\ formError' = formError \cup {"title"}
         /\ UNCHANGED <<migration, rev, res, activeFilter, supplied, budget, storage, tasks, taskId, categories, categoryId, cache, fetches,
                        errorFlag, failed, muts>>

\* the guard of handleCreateCategory: if (newCategoryName.trim())
categoryNameAccepted(name) == trim(name) # Empty

\* handleCreateCategory: CategoryManageModal.tsx:155-160, part_007:171-176
handleCreateCategory(name) ==
    IF categoryNameAccepted(name)
    THEN /\ budget > 0 /\ budget' = budget - 1
         /\ muts' = Append(muts, NewMutation("createCategory", 0, FALSE, trim(name),
                                             Undefined, Undefined, Undefined))
         /\ formError' = formError \ {"name"}
         /\ UNCHANGED <<migration, rev, res, activeFilter, supplied, storage, tasks, taskId, categories, categoryId, cache, fetches, errorFlag, failed>>
    ELSE /\ formError' = formError \cup {"name"}
         /\ UNCHANGED <<migration, rev, res, activeFilter, supplied, budget, storage, tasks, taskId, categories, categoryId, cache, fetches,
                        errorFlag, failed, muts>>

\* handleDeleteCategory, once window.confirm is answered with OK:
\* CategoryManageModal.tsx:163-167, part_007:179-183
handleDeleteCategory(id) ==
  /\ budget > 0 /\ budget' = budget - 1
  /\ muts' = Append(muts, NewMutation("deleteCategory", id, FALSE, Empty,
                                      Undefined, Undefined, Undefined))
  /\ UNCHANGED <<migration, rev, res, activeFilter, supplied, storage, tasks, taskId, categories, categoryId, cache, fetches,
                 errorFlag, failed, formError>>

(* ----------------------------- the store ------------------------------- *)
\* a delete that never finds its row
deleteTask_none(ts, id) == ts

\* an update that writes to every row
updateTask_all(ts, id, updateData) ==
  [i \in 1..Len(ts) |->
     [f \in DOMAIN ts[i] |-> IF f \in DOMAIN updateData THEN updateData[f]
                              ELSE ts[i][f]]]

\* MemStorage.updateTask (storage.ts:62-77): {...task, ...updateData}
updateTask(ts, id, updateData) ==
  [i \in 1..Len(ts) |->
     IF ts[i].id = id
     THEN [f \in DOMAIN ts[i] |-> IF f \in DOMAIN updateData THEN updateData[f]
                                  ELSE ts[i][f]]
     ELSE ts[i]]

\* MemStorage.deleteTask (storage.ts:79-81)
deleteTask(ts, id) == Filter(ts, id)

\* MemStorage.createTask (storage.ts:48-60): {...insertTask, id}
createTask(ts, id, insertTask) ==
  Append(ts, [id |-> id, title |-> insertTask.title, completed |-> insertTask.completed,
              categoryId |-> insertTask.categoryId, priority |-> insertTask.priority])

\* the name the task form finds for a categoryId in a category list:
\* categories.find(c => c.id === categoryId)?.name || ''
categoryName(cs, id) ==
  IF \E i \in 1..Len(cs) : cs[i].id = id
  THEN (CHOOSE c \in {cs[i] : i \in 1..Len(cs)} : c.id = id).name
  ELSE Empty

\* a deleteCategory that answers true and leaves the category stored
deleteCategory_keep(cs, ts, id) == [categories |-> cs, tasks |-> ts]

\* a deleteCategory that takes the tasks of the category with it
deleteCategory_cascade(cs, ts, id) ==
  [categories |-> SelectSeq(cs, LAMBDA c : c.id # id),
   tasks |-> SelectSeq(ts, LAMBDA t : t.categoryId # id)]

\* MemStorage.deleteCategory (storage.ts:105-107): this.categories.delete(id)
deleteCategory(cs, ts, id) ==
  [categories |-> SelectSeq(cs, LAMBDA c : c.id # id),
   tasks |-> ts]

\* DatabaseStorage.deleteCategory (part_013:328-331) under the foreign key of
\* tasks.categoryId (storage.ts:141): onDelete 'set null'
DatabaseStorage_deleteCategory(cs, ts, id) ==
  [categories |-> SelectSeq(cs, LAMBDA c : c.id # id),
   tasks |-> [i \in 1..Len(ts) |->
                IF ts[i].categoryId = id THEN [ts[i] EXCEPT !.categoryId = NoCategory]
                ELSE ts[i]]]

\* title: task.title || 'New Task'
NewTaskTitle == <<"N">>

\* DatabaseStorage.createTask (part_013:261-284): taskToInsert takes title,
\* description, dueDate, priority, completed and userId; the category_id
\* column is left to its default, null
DatabaseStorage_createTask(ts, id, task) ==
  Append(ts, [id |-> id,
              title |-> IF task.title = Empty THEN NewTaskTitle ELSE task.title,
              completed |-> task.completed,
              categoryId |-> NoCategory,
              priority |-> task.priority])

\* the body of POST /api/tasks: CreateTaskModal.tsx:161-169
newTask(r) ==
  [title |-> r.title, completed |-> FALSE, categoryId |-> r.categoryId,
   priority |-> r.priority]

\* the input of the createTask GraphQL mutation: CreateTaskModal.tsx:176-184
createTaskInput(r) ==
  [title |-> r.title, completed |-> FALSE, categoryId |-> r.categoryId,
   priority |-> toUpperCase(r.priority)]

\* MemStorage.createCategory (storage.ts:92-103)
createCategory(cs, id, name) == Append(cs, [id |-> id, name |-> name])

(* ---------------------------- transports ------------------------------- *)
\* the ways fetchGraphQL throws (graphqlFetch.ts:43-74): fetch rejects,
\* !response.ok, result.errors, response.json() rejects
GqlThrows == {"network", "http", "errors", "json"}

\* the ways apiRequest throws without reaching a route handler
\* (queryClient.ts:61-69): fetch rejects, !res.ok
RestThrows == {"network", "http"}

\* what the caller of a transport can tell apart: every throw lands in the
\* same catch block
seen(o) == IF o \in GqlThrows \cup RestThrows THEN "threw" ELSE o

\* queryClient.invalidateQueries({queryKey}), as recorded for the mutation
\* whose commit path issued it
invalidateQueries(inval, ks) == inval \cup ks

\* keys onSuccess invalidates at once
successKeys(kind) ==
  CASE kind = "toggle" -> (IF rev = "gql" THEN {KGetUserTasks} ELSE {KApiCategories})
    [] kind = "delete" -> (IF rev = "gql" THEN {KGetUserTasks} ELSE {})
    [] kind \in {"create", "update"} -> {}
    [] kind = "deleteCategory" ->
         (IF rev = "gql" THEN {KGetUserCategories, KGetUserTasks, KApiCategories, KApiTasks}
          ELSE {KApiCategories, KApiTasks})
    [] OTHER -> {CategoryKey, KApiCategories, KApiTasks}

\* keys onSuccess invalidates from its setTimeout
timerKeys(kind) ==
  CASE kind = "toggle" -> (IF rev = "gql" THEN {KApiCategories, KGetUserCategories} ELSE {})
    [] kind = "delete" -> (IF rev = "gql" THEN {KApiCategories, KGetUserCategories}
                           ELSE {KApiCategories})
    [] kind \in {"create", "update"} -> {KApiTasks, KApiCategories}
    [] OTHER -> {}

\* the task a GraphQL mutation answers with: id is an ID, a string, and
\* priority a value of enum TaskPriority (schema.graphql:20-37)
gqlResult(row) == [id |-> row.id, idType |-> "string", priority |-> toUpperCase(row.priority)]

\* the task a REST route answers with, res.json(task): the row as stored,
\* id a serial number (part_013:105-125, storage.ts:136-147)
restResult(row) == [id |-> row.id, idType |-> "number", priority |-> row.priority]

\* what mutationFn returns when the transport it is waiting for answers with
\* the stored task: result.createTask, result.updateTask, or the parsed body
mutationResult(m, ts) ==
  LET r == muts[m]
      id == IF r.kind = "create" THEN taskId ELSE r.id
      row == CHOOSE t \in {ts[i] : i \in 1..Len(ts)} : t.id = id
  IN IF r.kind \notin {"create", "update", "toggle"} THEN NoResult
     ELSE IF r.pc = "gql" THEN gqlResult(row) ELSE restResult(row)

\* an onSuccess that invalidates and shows nothing
onSuccess_silent(m, outcome) ==
  /\ muts' = [muts EXCEPT ![m].pc = "success", ![m].last = outcome,
                          ![m].serverId = IF muts[m].kind = "create" THEN taskId ELSE @,
                          ![m].result = mutationResult(m, tasks'),
                          ![m].inval = invalidateQueries(@, successKeys(muts[m].kind)),
                          ![m].timer = IF timerKeys(muts[m].kind) # {} THEN "armed" ELSE "none",
                          ![m].gqlSent = IF muts[m].pc = "gql" THEN @ + 1 ELSE @,
                          ![m].restSent = IF muts[m].pc = "rest" THEN @ + 1 ELSE @]
  /\ UNCHANGED cache

\* onSuccess: part_010:89-101,171-182; TaskList.tsx:938-954,1062-1079;
\* CreateTaskModal.tsx:241-261; CategoryManageModal.tsx:79-89; part_007:92-102
onSuccess(m, outcome) ==
  /\ muts' = [muts EXCEPT ![m].pc = "success", ![m].last = outcome,
                          ![m].serverId = IF muts[m].kind = "create" THEN taskId ELSE @,
                          ![m].result = mutationResult(m, tasks'),
                          ![m].toast = "success",
                          ![m].inval = invalidateQueries(@, successKeys(muts[m].kind)),
                          ![m].timer = IF timerKeys(muts[m].kind) # {} THEN "armed" ELSE "none",
                          ![m].gqlSent = IF muts[m].pc = "gql" THEN @ + 1 ELSE @,
                          ![m].restSent = IF muts[m].pc = "rest" THEN @ + 1 ELSE @]
  /\ UNCHANGED cache

\* an onError that shows its toast and leaves the cache as it is
onError_toastOnly(m) == cache

\* onError: part_010:78-86,160-168; TaskList.tsx:927-935,1051-1059;
\* CreateTaskModal.tsx:230-238; CategoryManageModal.tsx:90-96; part_007:103-109
onError(m) ==
  IF muts[m].kind \in TaskMutations
  THEN setQueryData(cache, mutationKey(muts[m].kind), muts[m].previousTasks)
  ELSE cache

\* a retry count read as the number of attempts: one run too many
rejected_oneMore(m, outcome) ==
  LET sent == [muts EXCEPT ![m].last = seen(outcome),
                 ![m].notFound = @ \/ outcome \in {"null", "notfound"},
                 ![m].gqlSent = IF muts[m].pc = "gql" THEN @ + 1 ELSE @,
                 ![m].restSent = IF muts[m].pc = "rest" THEN @ + 1 ELSE @]
  IN IF muts[m].failureCount <= MutationRetry
     THEN /\ muts' = [sent EXCEPT ![m].failureCount = @ + 1,
                                  ![m].pc = firstTransport(muts[m].kind)]
          /\ UNCHANGED cache
     ELSE /\ muts' = [sent EXCEPT ![m].pc = "error",
                                  ![m].toast = IF muts[m].kind \in TaskMutations
                                               THEN "network error" ELSE "error.message"]
          /\ cache' = onError(m)

\* mutationFn threw: run it again while failureCount < retry, else onError
rejected(m, outcome) ==
  LET sent == [muts EXCEPT ![m].last = seen(outcome),
                 ![m].notFound = @ \/ outcome \in {"null", "notfound"},
                 ![m].gqlSent = IF muts[m].pc = "gql" THEN @ + 1 ELSE @,
                 ![m].restSent = IF muts[m].pc = "rest" THEN @ + 1 ELSE @]
  IN IF muts[m].failureCount < MutationRetry
     THEN /\ muts' = [sent EXCEPT ![m].failureCount = @ + 1,
                                  ![m].pc = firstTransport(muts[m].kind)]
          /\ UNCHANGED cache
     ELSE /\ muts' = [sent EXCEPT ![m].pc = "error",
                                  ![m].toast = IF muts[m].kind \in TaskMutations
                                               THEN "network error" ELSE "error.message"]
          /\ cache' = onError(m)

\* the GraphQL call returned a falsy result and mutationFn goes on to REST
fallback(m, outcome) ==
  /\ muts' = [muts EXCEPT ![m].pc = "rest", ![m].last = seen(outcome),
                          ![m].notFound = @ \/ outcome = "null",
                          ![m].gqlSent = @ + 1]
  /\ UNCHANGED cache

\* what the backend does with the operation of mutation m
applied(m) ==
  LET r == muts[m]
  IN CASE r.kind = "toggle" ->
            /\ tasks' = updateTask(tasks, r.id, [completed |-> r.newCompletedState])
            /\ UNCHANGED <<taskId, categories, categoryId>>
       [] r.kind = "update" ->
            /\ tasks' = updateTask(tasks, r.id,
                           [title |-> r.title, completed |-> r.newCompletedState,
                            categoryId |-> r.categoryId,
                            priority |-> IF r.pc = "gql" THEN toUpperCase(r.priority)
                                         ELSE r.priority])
            /\ UNCHANGED <<taskId, categories, categoryId>>
       [] r.kind = "delete" ->
            /\ tasks' = deleteTask(tasks, r.id)
            /\ UNCHANGED <<taskId, categories, categoryId>>
       [] r.kind = "create" ->
            /\ tasks' = CASE r.pc = "gql" -> createTask(tasks, taskId, createTaskInput(r))
                           [] storage = "db" ->
                                DatabaseStorage_createTask(tasks, taskId, newTask(r))
                           [] OTHER -> createTask(tasks, taskId, newTask(r))
            /\ taskId' = taskId + 1
            /\ UNCHANGED <<categories, categoryId>>
       [] r.kind = "deleteCategory" ->
            LET after == IF storage = "db"
                         THEN DatabaseStorage_deleteCategory(categories, tasks, r.id)
                         ELSE deleteCategory(categories, tasks, r.id)
            IN /\ categories' = after.categories
               /\ tasks' = after.tasks
               /\ UNCHANGED <<taskId, categoryId>>
       [] OTHER ->
            /\ categories' = createCategory(categories, categoryId, r.title)
            /\ categoryId' = categoryId + 1
            /\ UNCHANGED <<tasks, taskId>>

\* can the backend carry the operation out?  update and delete need the row,
\* create needs a free id within the bound
accepts(m) ==
  LET r == muts[m]
  IN CASE r.kind \in {"toggle", "delete", "update"} -> r.id \in Ids(tasks)
       [] r.kind = "create" -> taskId <= MaxTasks
       [] r.kind = "deleteCategory" -> r.id \in Ids(categories)
       [] OTHER -> TRUE

\* the GraphQL half of mutationFn: TaskList.tsx:885-904,999-1023;
\* CreateTaskModal.tsx:171-208; part_007:63-91
mutationFn_graphql(m) ==
  /\ muts[m].pc = "gql"
  /\ UNCHANGED <<migration, rev, res, activeFilter, supplied, budget, storage, fetches, errorFlag, failed, formError>>
  /\ \E o \in GqlThrows \cup {"ok", "null"} :
       CASE o = "ok" ->
              /\ accepts(m)
              /\ applied(m)
              /\ onSuccess(m, "ok")
         [] o = "null" ->
              \* {data: {updateTask: null}}: no such row (or, for a create, none made)
              /\ muts[m].kind \in {"toggle", "delete", "update", "deleteCategory"}
                   => ~accepts(m)
              /\ UNCHANGED <<tasks, taskId, categories, categoryId>>
              /\ IF hasFallback(muts[m].kind) THEN fallback(m, "null")
                 ELSE rejected(m, "null")
         [] OTHER ->
              \* fetchGraphQL threw: only the mutations of CreateTaskModal catch
              \* it around the GraphQL call; the others rethrow from the outer catch
              /\ UNCHANGED <<tasks, taskId, categories, categoryId>>
              /\ IF muts[m].kind \in {"create", "update"} THEN fallback(m, o)
                 ELSE rejected(m, o)

\* the REST half of mutationFn: part_010:54-75,131-157; TaskList.tsx:906-919,
\* 1025-1043; CreateTaskModal.tsx:210-221; CategoryManageModal.tsx:54-78
mutationFn_rest(m) ==
  /\ muts[m].pc = "rest"
  /\ UNCHANGED <<migration, rev, res, activeFilter, supplied, budget, storage, fetches, errorFlag, failed, formError>>
  /\ \E o \in RestThrows \cup {"ok", "notfound"} :
       CASE o = "ok" ->
              /\ accepts(m)
              /\ applied(m)
              /\ onSuccess(m, "ok")
         [] o = "notfound" ->
              \* the route answers 404 and apiRequest throws
              /\ muts[m].kind \in {"toggle", "delete", "update", "deleteCategory"}
              /\ ~accepts(m)
              /\ UNCHANGED <<tasks, taskId, categories, categoryId>>
              /\ rejected(m, "notfound")
         [] OTHER ->
              /\ UNCHANGED <<tasks, taskId, categories, categoryId>>
              /\ rejected(m, o)

\* the GraphQL half of mutationFn when the backend carries the operation out
\* and the answer does not arrive (fetch rejects) or cannot be parsed
\* (response.json() throws): graphqlFetch.ts:43-74 throws all the same
mutationFn_graphql_lost(m) ==
  /\ muts[m].pc = "gql"
  /\ UNCHANGED <<migration, rev, res, activeFilter, supplied, budget, storage, fetches, errorFlag, failed, formError>>
  /\ accepts(m)
  /\ applied(m)
  /\ \E o \in {"network", "json"} :
       IF muts[m].kind \in {"create", "update"} THEN fallback(m, o)
       ELSE rejected(m, o)

\* the REST half of mutationFn when the route carries the operation out and
\* the response does not arrive: fetch rejects and apiRequest throws
mutationFn_rest_lost(m) ==
  /\ muts[m].pc = "rest"
  /\ UNCHANGED <<migration, rev, res, activeFilter, supplied, budget, storage, fetches, errorFlag, failed, formError>>
  /\ accepts(m)
  /\ applied(m)
  /\ rejected(m, "network")

\* the REST half of mutationFn when the request is answered 2xx by something
\* that did not carry the operation out, with an empty body or one that is
\* not JSON (a proxy, a catch-all page).  create and update return
\* { success: true } (CreateTaskModal.tsx:216-221, 376-381); delete does not
\* read the body (part_010:59-70); toggle awaits response.json(), which
\* throws (part_010:144)
mutationFn_rest_garbled(m) ==
  /\ muts[m].pc = "rest"
  /\ muts[m].kind \in TaskMutations
  /\ UNCHANGED <<migration, rev, res, activeFilter, supplied, budget, storage, tasks, taskId, categories, categoryId,
                 fetches, errorFlag, failed, formError>>
  /\ IF muts[m].kind = "toggle" THEN rejected(m, "json")
     ELSE /\ muts' = [muts EXCEPT ![m].pc = "success", ![m].last = "garbled",
                                  ![m].toast = "success",
                                  ![m].inval = invalidateQueries(@, successKeys(muts[m].kind)),
                                  ![m].timer = IF timerKeys(muts[m].kind) # {} THEN "armed"
                                               ELSE "none",
                                  ![m].restSent = @ + 1]
          /\ UNCHANGED cache

\* the setTimeout callback of onSuccess
timeout(m) ==
  /\ muts[m].timer = "armed"
  /\ muts' = [muts EXCEPT ![m].timer = "fired",
                          ![m].inval = invalidateQueries(@, timerKeys(muts[m].kind))]
  /\ UNCHANGED <<migration, rev, res, activeFilter, supplied, budget, storage, tasks, taskId, categories, categoryId, cache, fetches, errorFlag, failed, formError>>

(* ------------------------------ queries -------------------------------- *)
\* the useQuery observers mounted in the running revision: TaskContext
\* (both), TaskList of part_009 and the category modal of part_007 ("gql")
Observed ==
  IF rev = "gql" THEN Keys \ {KTasks} ELSE {KApiTasks, KApiCategories, KTasks}

\* the rows the backend lists for a key
rows(k) == IF k \in TaskKeys \cup {KTasks} THEN tasks ELSE categories

\* the tasks a GraphQL answer carries: priority is a value of the enum
\* TaskPriority, LOW / MEDIUM / HIGH
getUserTasks(ts) ==
  [i \in 1..Len(ts) |-> [ts[i] EXCEPT !.priority = toUpperCase(@)]]

\* part_009:60-82: the priority is lower-cased for the UI
formatTaskFromGraphQL(item) == [item EXCEPT !.priority = toLowerCase(@)]

\* filter.priority is not set
NoPriority == "none"

\* buildFilter of the GraphQL list, its priority part (part_009:29-49)
buildFilter_graphql(f) == IF f \in Priorities THEN toUpperCase(f) ELSE NoPriority

\* buildFilter of the REST list, its priority part (TaskList.tsx:20-50)
buildFilter_rest(f) == IF f \in Priorities THEN f ELSE NoPriority

\* filterTasksClient, its priority part (part_009:87-108): the filter value
\* is lower-cased before the comparison
filterTasksClient(ts, eq) ==
  IF eq = NoPriority THEN ts
  ELSE SelectSeq(ts, LAMBDA task : task.priority = toLowerCase(eq))

\* the priority filter of the REST list (TaskList.tsx:82-85), the same
\* comparison as mockData.ts:96-97
filteredTasks(ts, eq) ==
  IF eq = NoPriority THEN ts
  ELSE SelectSeq(ts, LAMBDA task : task.priority = eq)

\* what the queryFn of a key returns when its transport supplies the rows
listed(k) ==
  CASE k = KGetUserTasks ->
         filterTasksClient(
           [i \in 1..Len(tasks) |-> formatTaskFromGraphQL(getUserTasks(tasks)[i])],
           buildFilter_graphql(activeFilter))
    [] k = KTasks -> filteredTasks(tasks, buildFilter_rest(activeFilter))
    [] OTHER -> rows(k)

\* the ways the transport of a key's queryFn fails
queryThrows(k) ==
  IF k \in {KApiTasks, KApiCategories, KTasks} THEN RestThrows ELSE GqlThrows

\* does the queryFn of the key catch a transport error and return []?
\* TaskContext.tsx:226-229,246-249 and part_007:50-56 do; part_009:160-170
\* and TaskList.tsx:105-108 throw
swallows(k) == k \notin {KGetUserTasks, KTasks}

\* a query starts fetching: mount, the refetchInterval tick
\* (queryClient.ts:129), or the refetch of an invalidated query
fetch(k) ==
  /\ k \in Observed
  /\ fetches[k].status = "idle"
  /\ fetches' = [fetches EXCEPT ![k] = [status |-> "inflight", failureCount |-> 0]]
  /\ UNCHANGED <<migration, rev, res, activeFilter, supplied, budget, storage, tasks, taskId, categories, categoryId, cache, errorFlag, failed,
                 muts, formError>>

\* the setTimeout callback of onSuccess together with the refetch that its
\* invalidateQueries starts at once on every invalidated key with a mounted
\* observer (CreateTaskModal.tsx:255-259, 415-419)
timeout_refetch(m) ==
  /\ muts[m].timer = "armed"
  /\ muts' = [muts EXCEPT ![m].timer = "fired",
                          ![m].inval = invalidateQueries(@, timerKeys(muts[m].kind))]
  /\ fetches' = [k \in Keys |->
                   IF k \in timerKeys(muts[m].kind) \cap Observed
                   THEN [status |-> "inflight", failureCount |-> 0]
                   ELSE fetches[k]]
  /\ UNCHANGED <<migration, rev, res, activeFilter, supplied, budget, storage, tasks, taskId, categories, categoryId,
                 cache, errorFlag, failed, formError>>

\* a query that adds what its queryFn returned to what it holds
resolved_merge(k, data, transportFailed, given) ==
  /\ cache' = setQueryData(cache, k, Array(cache[k].items \o data))
  /\ failed' = IF transportFailed THEN failed \cup {k} ELSE failed \ {k}
  /\ supplied' = IF given THEN supplied \cup {k} ELSE supplied \ {k}
  /\ errorFlag' = [errorFlag EXCEPT ![k] = FALSE]
  /\ fetches' = [fetches EXCEPT ![k] = IdleFetch]

\* the queryFn returned data: the query stores it and leaves the error state
resolved(k, data, transportFailed, given) ==
  /\ cache' = setQueryData(cache, k, Array(data))
  /\ failed' = IF transportFailed THEN failed \cup {k} ELSE failed \ {k}
  /\ supplied' = IF given THEN supplied \cup {k} ELSE supplied \ {k}
  /\ errorFlag' = [errorFlag EXCEPT ![k] = FALSE]
  /\ fetches' = [fetches EXCEPT ![k] = IdleFetch]

\* the queryFn threw: fetch again while failureCount < retry, else the query
\* goes to the error state and keeps its data
threw(k) ==
  IF fetches[k].failureCount < QueryRetry
  THEN /\ fetches' = [fetches EXCEPT ![k].failureCount = @ + 1]
       /\ UNCHANGED <<cache, errorFlag, failed, supplied>>
  ELSE /\ fetches' = [fetches EXCEPT ![k] = IdleFetch]
       /\ errorFlag' = [errorFlag EXCEPT ![k] = TRUE]
       /\ failed' = failed \cup {k}
       /\ supplied' = supplied \ {k}
       /\ UNCHANGED cache

\* queryFn: TaskContext.tsx:216-230,236-250; part_009:119-171; part_007:36-57
queryFn(k) ==
  /\ fetches[k].status = "inflight"
  /\ UNCHANGED <<migration, rev, res, activeFilter, budget, storage, tasks, taskId, categories, categoryId, muts, formError>>
  /\ \E o \in queryThrows(k) \cup {"ok", "null"} :
       /\ CASE o = "ok" -> resolved(k, listed(k), FALSE, TRUE)
            [] o = "null" ->
                 \* a GraphQL answer without the list: part_009:137-146, part_007:49
                 /\ k \in {KGetUserTasks, KGetUserCategories}
                 /\ resolved(k, <<>>, FALSE, FALSE)
            [] OTHER ->
                 IF swallows(k) THEN resolved(k, <<>>, TRUE, FALSE) ELSE threw(k)

\* the filters of the sidebar and of the list header (TaskContext.tsx:206-211)
Filters == {"all_priority"} \cup Priorities

\* a click on a filter: setActiveFilter(filter.id) (part_009:285,
\* part_005:24-28).  The GraphQL list refetches its one key (part_009:52-55);
\* the REST list moves to the query of the key that holds the new filter
\* (TaskList.tsx:52-53), which has no data and fetches on mount.
setActiveFilter(f) ==
  /\ f # activeFilter
  /\ activeFilter' = f
  /\ LET k == IF rev = "gql" THEN KGetUserTasks ELSE KTasks IN
       /\ fetches' = [fetches EXCEPT ![k] = [status |-> "inflight", failureCount |-> 0]]
       /\ IF rev = "gql"
          THEN UNCHANGED <<cache, errorFlag, failed, supplied>>
          ELSE /\ cache' = [cache EXCEPT ![k] = Undefined]
               /\ errorFlag' = [errorFlag EXCEPT ![k] = FALSE]
               /\ failed' = failed \ {k}
               /\ supplied' = supplied \ {k}
  /\ UNCHANGED <<migration, rev, res, budget, storage, tasks, taskId, categories, categoryId, muts, formError>>

\* another session of the same user deletes a task (DELETE /api/tasks/:id)
elsewhere ==
  /\ \E i \in 1..Len(tasks) : tasks' = deleteTask(tasks, tasks[i].id)
  /\ UNCHANGED <<migration, rev, res, activeFilter, supplied, budget, storage, taskId, categories, categoryId, cache, fetches, errorFlag, failed, muts, formError>>

(* ------------------------------ routes --------------------------------- *)
\* app.post('/api/tasks') called by any HTTP client (part_013:105-112):
\* storage.createTask(req.body), answered 201; the body is not validated.
\* A missing title reads as the empty one: both are falsy.
postTask(body) ==
  /\ taskId <= MaxTasks
  /\ tasks' = IF storage = "db" THEN DatabaseStorage_createTask(tasks, taskId, body)
              ELSE createTask(tasks, taskId, body)
  /\ taskId' = taskId + 1
  /\ UNCHANGED <<migration, rev, res, activeFilter, supplied, budget, storage, categories, categoryId, cache, fetches, errorFlag,
                 failed, muts, formError>>

\* the task of the store with the id
getTask(ts, id) == CHOOSE t \in {ts[i] : i \in 1..Len(ts)} : t.id = id

\* app.patch('/api/tasks/:id') called by any HTTP client (part_013:114-125):
\* storage.updateTask(id, req.body); 404 when it returns no task, else the
\* task with 200; 500 when the storage throws, which MemStorage never does
app_patch(id, body) ==
  /\ \E o \in IF storage = "db" THEN {"ok", "throws"} ELSE {"ok"} :
       CASE o = "throws" ->
              /\ res' = [NoResponse EXCEPT !.seq = 1 - res.seq, !.route = "patch",
                                           !.id = id, !.status = 500]
              /\ UNCHANGED tasks
         [] OTHER ->
              /\ tasks' = updateTask(tasks, id, body)
              /\ res' = IF id \notin Ids(tasks)
                        THEN [NoResponse EXCEPT !.seq = 1 - res.seq, !.route = "patch",
                                                !.id = id, !.status = 404]
                        ELSE [seq |-> 1 - res.seq, route |-> "patch", id |-> id,
                              status |-> 200,
                              task |-> updateTask(<<getTask(tasks, id)>>, id, body)[1]]
  /\ UNCHANGED <<migration, rev, activeFilter, supplied, budget, storage, taskId, categories, categoryId, cache,
                 fetches, errorFlag, failed, muts, formError>>

\* app.delete('/api/tasks/:id') (part_013:127-137): storage.deleteTask(id);
\* 404 when it returns false, else 204; 500 when the storage throws
app_delete(id) ==
  /\ \E o \in IF storage = "db" THEN {"ok", "throws"} ELSE {"ok"} :
       CASE o = "throws" ->
              /\ res' = [NoResponse EXCEPT !.seq = 1 - res.seq, !.route = "delete",
                                           !.id = id, !.status = 500]
              /\ UNCHANGED tasks
         [] OTHER ->
              /\ tasks' = deleteTask(tasks, id)
              /\ res' = [NoResponse EXCEPT !.seq = 1 - res.seq, !.route = "delete",
                                           !.id = id,
                                           !.status = IF tasks' = tasks THEN 404 ELSE 204]
  /\ UNCHANGED <<migration, rev, activeFilter, supplied, budget, storage, taskId, categories, categoryId, cache,
                 fetches, errorFlag, failed, muts, formError>>

(* ------------------------------ counts --------------------------------- *)
\* categoryCounts[categoryId] of the count effect: the tasks of data that
\* carry the categoryId (TaskContext.tsx:268-273)
categoryCounts(data, id) ==
  Cardinality({i \in 1..Len(data.items) : data.items[i].categoryId = id})

\* the categories state of TaskProvider: the 'all' entry, then one entry per
\* category of categoryData, each with its count over data; the initial
\* state until categoryData arrives (TaskContext.tsx:201-203, 254-295)
categoriesShown ==
  LET categoryData == cache[KApiCategories]
      data == cache[KApiTasks]
  IN IF categoryData.shape = "undefined"
     THEN <<[entry |-> "all", id |-> NoCategory, count |-> 0]>>
     ELSE <<[entry |-> "all", id |-> NoCategory, count |-> Len(data.items)]>>
          \o [i \in 1..Len(categoryData.items) |->
                [entry |-> "category", id |-> categoryData.items[i].id,
                 count |-> categoryCounts(data, categoryData.items[i].id)]]

(* ------------------------------- Next ---------------------------------- *)
\* The task list under mutation: the TaskItems and the task form of the
\* running revision, with the query the list is rendered from.
Next ==
  \/ handleToggleCompletion
  \/ onConfirm
  \/ onSubmit(NoTask, Form(Milk))
  \/ \E i \in 1..Len(Displayed) : onSubmit(Displayed[i], Form(Eggs))
  \/ \E m \in 1..Len(muts) : mutationFn_graphql(m)
  \/ \E m \in 1..Len(muts) : mutationFn_rest(m)
  \/ \E m \in 1..Len(muts) : timeout(m)
  \/ fetch(ListKey)
  \/ queryFn(ListKey)

Spec == Init /\ [][Next]_vars

\* The same, with the store shared with another session.
NextShared == Next \/ elsewhere

SpecShared == Init /\ [][NextShared]_vars

\* The two forms with every input, and the mutations they start.
NextForms ==
  \/ \E title \in Titles : onSubmit(NoTask, Form(title))
  \/ \E name \in Titles : handleCreateCategory(name)
  \/ \E m \in 1..Len(muts) : mutationFn_graphql(m)
  \/ \E m \in 1..Len(muts) : mutationFn_rest(m)
  \/ \E m \in 1..Len(muts) : timeout(m)

SpecForms == Init /\ [][NextForms]_vars

\* Every query of the running revision, over a store shared with another
\* session.
NextQueries ==
  \/ \E k \in Keys : fetch(k)
  \/ \E k \in Keys : queryFn(k)
  \/ elsewhere

SpecQueries == Init /\ [][NextQueries]_vars

\* The task form creating tasks with a category and a priority, over either
\* storage, the store holding one category.
InitCreate == InitWith({"mem", "db"}, <<[id |-> 1, name |-> Shop]>>, NoCategory, MaxMut)

NextCreate ==
  \/ \E c \in {NoCategory, 1} : \E p \in Priorities :
       onSubmit(NoTask, [title |-> Milk, category |-> c, priority |-> p])
  \/ \E m \in 1..Len(muts) : mutationFn_graphql(m)
  \/ \E m \in 1..Len(muts) : mutationFn_rest(m)
  \/ \E m \in 1..Len(muts) : timeout(m)
  \/ fetch(KApiTasks)
  \/ queryFn(KApiTasks)

SpecCreate == InitCreate /\ [][NextCreate]_vars

\* The category modal deleting categories while tasks reference them, with
\* the task and category queries of TaskContext.
InitCategories == InitWith({"mem", "db"}, <<[id |-> 1, name |-> Shop]>>, 1, MaxMut)

NextCategories ==
  \/ \E id \in Ids(categories) : handleDeleteCategory(id)
  \/ handleCreateCategory(Milk)
  \/ \E m \in 1..Len(muts) : mutationFn_graphql(m)
  \/ \E m \in 1..Len(muts) : mutationFn_rest(m)
  \/ \E k \in {KApiTasks, KApiCategories} : fetch(k)
  \/ \E k \in {KApiTasks, KApiCategories} : queryFn(k)

SpecCategories == InitCategories /\ [][NextCategories]_vars

\* The task form used again while its earlier mutation is still in flight:
\* creates and updates overlapping on '/api/tasks', with its refetches.
InitOverlap == InitWith({"mem"}, <<>>, NoCategory, MaxMut + 1)

NextOverlap ==
  \/ onSubmit(NoTask, Form(Milk))
  \/ \E i \in 1..Len(Displayed) : onSubmit(Displayed[i], Form(Eggs))
  \/ \E m \in 1..Len(muts) : mutationFn_graphql(m)
  \/ \E m \in 1..Len(muts) : mutationFn_rest(m)
  \/ \E m \in 1..Len(muts) : timeout(m)
  \/ fetch(KApiTasks)
  \/ queryFn(KApiTasks)

SpecOverlap == InitOverlap /\ [][NextOverlap]_vars

\* The task list under toggles and deletes with every query of the running
\* revision, the tasks belonging to a category: what the sidebar counts.
NextCounts ==
  \/ handleToggleCompletion
  \/ onConfirm
  \/ \E m \in 1..Len(muts) : mutationFn_graphql(m)
  \/ \E m \in 1..Len(muts) : mutationFn_rest(m)
  \/ \E m \in 1..Len(muts) : timeout(m)
  \/ \E k \in {KApiTasks, KApiCategories, ListKey} : fetch(k)
  \/ \E k \in {KApiTasks, KApiCategories, ListKey} : queryFn(k)

SpecCounts == InitCategories /\ [][NextCounts]_vars

\* The completion toggle over a list of several tasks that differ in
\* category and priority.
InitToggle ==
  InitOver({"mem", "db"}, <<[id |-> 1, name |-> Shop]>>,
           [i \in 1..(InitTasks + 1) |->
              [NewTask(i, Milk, FALSE) EXCEPT
                 !.categoryId = IF i = 1 THEN 1 ELSE NoCategory,
                 !.priority = IF i = 1 THEN "high" ELSE "medium"]],
           MaxMut)

NextToggle ==
  \/ handleToggleCompletion
  \/ \E m \in 1..Len(muts) : mutationFn_graphql(m)
  \/ \E m \in 1..Len(muts) : mutationFn_rest(m)
  \/ \E m \in 1..Len(muts) : timeout(m)
  \/ fetch(ListKey)
  \/ queryFn(ListKey)

SpecToggle == InitToggle /\ [][NextToggle]_vars

\* The filtered task list of either revision over tasks that differ in
\* priority, the user choosing filters and creating tasks of any priority.
FilteredKey == IF rev = "gql" THEN KGetUserTasks ELSE KTasks

InitFilter ==
  InitOver({"mem", "db"}, <<>>,
           [i \in 1..InitTasks |-> [NewTask(i, Milk, FALSE) EXCEPT !.priority = "low"]],
           MaxMut)

NextFilter ==
  \/ \E f \in Filters : setActiveFilter(f)
  \/ \E p \in Priorities :
       onSubmit(NoTask, [title |-> Milk, category |-> NoCategory, priority |-> p])
  \/ \E m \in 1..Len(muts) : mutationFn_graphql(m)
  \/ \E m \in 1..Len(muts) : mutationFn_rest(m)
  \/ \E m \in 1..Len(muts) : timeout(m)
  \/ fetch(FilteredKey)
  \/ queryFn(FilteredKey)

SpecFilter == InitFilter /\ [][NextFilter]_vars

\* The task routes called by any HTTP client with any id, over either
\* storage.
Bodies ==
  {[completed |-> TRUE], [title |-> Eggs], [title |-> Eggs, priority |-> "high"]}

NextRest ==
  \/ \E p \in Priorities :
       postTask([title |-> Milk, completed |-> FALSE, categoryId |-> NoCategory,
                 priority |-> p])
  \/ \E id \in 1..(MaxTasks + 1) : \E body \in Bodies : app_patch(id, body)
  \/ \E id \in 1..(MaxTasks + 1) : app_delete(id)

SpecRest == InitCreate /\ [][NextRest]_vars

\* Two mutations of the task list invoked over a list that has been
\* loaded, with no refetch before both have ended.
InitLoaded ==
  /\ rev \in {"rest", "gql"}
  /\ budget = MaxMut + 1
  /\ tasks = [i \in 1..InitTasks |-> NewTask(i, Milk, FALSE)]
  /\ taskId = InitTasks + 1
  /\ storage = "mem"
  /\ categories = <<>>
  /\ categoryId = 1
  /\ cache = [k \in Keys |-> IF k \in Observed \cap TaskKeys THEN Array(tasks)
                              ELSE Undefined]
  /\ fetches = [k \in Keys |-> IdleFetch]
  /\ errorFlag = [k \in Keys |-> FALSE]
  /\ failed = {}
  /\ supplied = Observed \cap TaskKeys
  /\ activeFilter = NoFilter
  /\ res = NoResponse
  /\ migration = NoMigration
  /\ muts = <<>>
  /\ formError = {}

NextPair ==
  \/ handleToggleCompletion
  \/ onConfirm
  \/ onSubmit(NoTask, Form(Eggs))
  \/ \E m \in 1..Len(muts) : mutationFn_graphql(m)
  \/ \E m \in 1..Len(muts) : mutationFn_rest(m)
  \/ \E m \in 1..Len(muts) : timeout(m)

SpecPair == InitLoaded /\ [][NextPair]_vars

\* Two mutations over a loaded list where the only refetches are the ones
\* the delayed invalidation of a committed mutation starts.
NextDelayed ==
  \/ handleToggleCompletion
  \/ onSubmit(NoTask, Form(Eggs))
  \/ \E m \in 1..Len(muts) : mutationFn_graphql(m)
  \/ \E m \in 1..Len(muts) : mutationFn_rest(m)
  \/ \E m \in 1..Len(muts) : timeout_refetch(m)
  \/ \E k \in {KApiTasks, KApiCategories} : queryFn(k)

SpecDelayed == InitLoaded /\ [][NextDelayed]_vars

\* The task form creating tasks over an empty store, the transports free to
\* lose the answer of a request they carried out.
InitEmpty == InitOver({"mem", "db"}, <<>>, <<>>, MaxMut)

NextLost ==
  \/ onSubmit(NoTask, Form(Milk))
  \/ \E m \in 1..Len(muts) : mutationFn_graphql(m)
  \/ \E m \in 1..Len(muts) : mutationFn_rest(m)
  \/ \E m \in 1..Len(muts) : mutationFn_graphql_lost(m)
  \/ \E m \in 1..Len(muts) : mutationFn_rest_lost(m)
  \/ \E m \in 1..Len(muts) : timeout(m)
  \/ fetch(KApiTasks)
  \/ queryFn(KApiTasks)

SpecLost == InitEmpty /\ [][NextLost]_vars

\* Task mutations over a loaded list, the REST transport free to answer 2xx
\* with a body that is not the task.
NextGarbled ==
  \/ handleToggleCompletion
  \/ onConfirm
  \/ onSubmit(NoTask, Form(Eggs))
  \/ \E i \in 1..Len(Displayed) : onSubmit(Displayed[i], Form(Eggs))
  \/ \E m \in 1..Len(muts) : mutationFn_graphql(m)
  \/ \E m \in 1..Len(muts) : mutationFn_rest(m)
  \/ \E m \in 1..Len(muts) : mutationFn_rest_garbled(m)
  \/ \E m \in 1..Len(muts) : timeout(m)

SpecGarbled == InitLoaded /\ [][NextGarbled]_vars

(* ------------------------- migration script --------------------------- *)
\* Number.prototype.toString on the ids of the source rows
toString(n) == <<"1", "2", "3", "4">>[n]

\* the id the target gives to the n-th object it creates
generatedId(n) == <<"a", "b", "c", "d", "e", "f", "g", "h">>[n]

\* SELECT * FROM users: the one user all rows belong to
users == <<[id |-> 1]>>

\* fetchPostgresData: the rows of the three tables
fetchPostgresData == [users |-> users, categories |-> categories, tasks |-> tasks]

\* the loop that runs next: a for..of over no further element is left
RECURSIVE loop(_)
loop(m) ==
  CASE m.pc = "users" /\ m.i > Len(m.data.users) ->
         loop([m EXCEPT !.pc = "categories", !.i = 1])
    [] m.pc = "categories" /\ m.i > Len(m.data.categories) ->
         loop([m EXCEPT !.pc = "tasks", !.i = 1])
    [] m.pc = "tasks" /\ m.i > Len(m.data.tasks) -> [m EXCEPT !.pc = "done"]
    [] OTHER -> m

\* objects the target has created so far in this run
created(m) == Len(m.users) + Len(m.categories) + Len(m.tasks)

\* main: fetch the source rows and call migrateDataToDynamoDB, in the
\* TypeScript script (part_014) or the JavaScript one (migrate-to-dynamodb.js)
main(version) ==
  /\ migration.pc = "idle"
  /\ migration' = loop([NoMigration EXCEPT
                          !.version = version, !.pc = "users", !.i = 1,
                          !.data = fetchPostgresData,
                          !.userIdMapping = [id \in Ids(users) |-> NoId],
                          !.categoryIdMapping = [id \in Ids(categories) |-> NoId]])
  /\ UNCHANGED <<rev, res, activeFilter, supplied, budget, storage, tasks, taskId,
                 categories, categoryId, cache, fetches, errorFlag, failed, muts,
                 formError>>

\* one pass of the user loop: createUser succeeds and the mapping is
\* written, or executeGraphQL throws and the user is logged as failed
migrateUser ==
  /\ migration.pc = "users"
  /\ LET m == migration
         user == m.data.users[m.i]
         id == generatedId(created(m) + 1)
     IN \E o \in {"ok", "throws"} :
          migration' = loop(
            IF o = "ok"
            THEN [m EXCEPT !.users = Append(@, [id |-> id, from |-> user.id]),
                           !.userIdMapping[user.id] = id, !.i = @ + 1]
            ELSE [m EXCEPT !.failed.users = @ \cup {user.id}, !.i = @ + 1])
  /\ UNCHANGED <<rev, res, activeFilter, supplied, budget, storage, tasks, taskId,
                 categories, categoryId, cache, fetches, errorFlag, failed, muts,
                 formError>>

\* the owner a category is created with: the JavaScript script looks the
\* user up in userIdMapping first, the TypeScript one never does
categoryOwnerId(m, userId) ==
  IF m.version = "js" /\ m.userIdMapping[userId] # NoId
  THEN m.userIdMapping[userId]
  ELSE toString(userId)

\* one pass of the category loop
migrateCategory ==
  /\ migration.pc = "categories"
  /\ LET m == migration
         category == m.data.categories[m.i]
         id == generatedId(created(m) + 1)
     IN \E o \in {"ok", "throws"} :
          migration' = loop(
            IF o = "ok"
            THEN [m EXCEPT !.categories =
                             Append(@, [id |-> id, name |-> category.name,
                                        ownerId |-> categoryOwnerId(m, users[1].id),
                                        from |-> category.id]),
                           !.categoryIdMapping[category.id] = id, !.i = @ + 1]
            ELSE [m EXCEPT !.failed.categories = @ \cup {category.id}, !.i = @ + 1])
  /\ UNCHANGED <<rev, res, activeFilter, supplied, budget, storage, tasks, taskId,
                 categories, categoryId, cache, fetches, errorFlag, failed, muts,
                 formError>>

\* the categoryId a task is created with.
\*   part_014:        task.categoryId ? task.categoryId.toString() : undefined
\*   migrate-to-dynamodb.js:
\*     task.categoryId ? (categoryIdMapping[task.categoryId] || task.categoryId.toString()) : null
taskCategoryId(m, categoryId_) ==
  CASE categoryId_ = NoCategory -> NoId
    [] m.version = "js" /\ categoryId_ \in DOMAIN m.categoryIdMapping
         /\ m.categoryIdMapping[categoryId_] # NoId -> m.categoryIdMapping[categoryId_]
    [] OTHER -> toString(categoryId_)

\* one pass of the task loop
migrateTask ==
  /\ migration.pc = "tasks"
  /\ LET m == migration
         task == m.data.tasks[m.i]
         id == generatedId(created(m) + 1)
     IN \E o \in {"ok", "throws"} :
          migration' = loop(
            IF o = "ok"
            THEN [m EXCEPT !.tasks =
                             Append(@, [id |-> id, title |-> task.title,
                                        completed |-> task.completed,
                                        priority |-> toUpperCase(task.priority),
                                        categoryId |-> taskCategoryId(m, task.categoryId),
                                        from |-> task.id]),
                           !.i = @ + 1]
            ELSE [m EXCEPT !.failed.tasks = @ \cup {task.id}, !.i = @ + 1])
  /\ UNCHANGED <<rev, res, activeFilter, supplied, budget, storage, tasks, taskId,
                 categories, categoryId, cache, fetches, errorFlag, failed, muts,
                 formError>>

\* A run of either migration script over a database that holds two
\* categories and MaxTasks tasks, each of one of the categories or of none.
InitMigrate ==
  \E cs \in [1..MaxTasks -> {NoCategory, 1, 2}] :
    InitOver({"db"}, <<[id |-> 1, name |-> Shop], [id |-> 2, name |-> Eggs]>>,
             [i \in 1..MaxTasks |-> [NewTask(i, Milk, FALSE) EXCEPT !.categoryId = cs[i]]],
             0)

NextMigrate ==
  \/ \E version \in {"ts", "js"} : main(version)
  \/ migrateUser
  \/ migrateCategory
  \/ migrateTask

SpecMigrate == InitMigrate /\ [][NextMigrate]_vars

\* The in-memory store used through its routes by any HTTP client, and its
\* categories through the category modal: tasks and categories are created
\* and deleted, and a PATCH body may carry any field of a task, id included.
\* The store is followed up to the first PATCH that leaves a task under a
\* key that is not its id.
InitIds == InitOver({"mem"}, <<[id |-> 1, name |-> Shop]>>, <<>>, MaxMut + 1)

IdBodies == {[completed |-> TRUE]} \cup {[id |-> k] : k \in 1..(MaxTasks + 1)}

rekeyed == res.route = "patch" /\ res.status = 200 /\ res.task.id # res.id

NextIds ==
  \/ ~rekeyed /\ postTask([title |-> Milk, completed |-> FALSE,
                           categoryId |-> NoCategory, priority |-> "medium"])
  \/ ~rekeyed /\ \E id \in 1..(MaxTasks + 1) : \E body \in IdBodies : app_patch(id, body)
  \/ ~rekeyed /\ \E id \in 1..(MaxTasks + 1) : app_delete(id)
  \/ ~rekeyed /\ \E id \in Ids(categories) : handleDeleteCategory(id)
  \/ ~rekeyed /\ handleCreateCategory(Milk)
  \/ ~rekeyed /\ \E m \in 1..Len(muts) : mutationFn_graphql(m)
  \/ ~rekeyed /\ \E m \in 1..Len(muts) : mutationFn_rest(m)

SpecIds == InitIds /\ [][NextIds]_vars

\* Every way a task gets created: the task form with any title, and
\* POST /api/tasks with any body, over either storage.
NextRoutes ==
  \/ \E title \in Titles : onSubmit(NoTask, Form(title))
  \/ \E title \in Titles : \E p \in Priorities :
       postTask([title |-> title, completed |-> FALSE, categoryId |-> NoCategory,
                 priority |-> p])
  \/ \E m \in 1..Len(muts) : mutationFn_graphql(m)
  \/ \E m \in 1..Len(muts) : mutationFn_rest(m)
  \/ \E m \in 1..Len(muts) : timeout(m)
  \/ fetch(KApiTasks)
  \/ queryFn(KApiTasks)

SpecRoutes == InitCreate /\ [][NextRoutes]_vars

(* ------------------------------ properties ----------------------------- *)
\* the mutation is waiting for a transport to answer
pending(r) == r.pc \in {"gql", "rest"}

\* onMutate changed the value of the mutation's key
wrote(r) == r.edited # r.before

\* this step reports mutation m as failed
rejects(m) == muts[m].pc # "error" /\ muts'[m].pc = "error"

C2_CommitInvalidates ==
  \A m \in 1..Len(muts) :
    (/\ muts[m].kind \in TaskMutations
     /\ wrote(muts[m])
     /\ muts[m].pc = "success"
     /\ muts[m].timer # "armed")
      => mutationKey(muts[m].kind) \in muts[m].inval

\* the optimistic result of mutation record r is in the list value v
optimistic(r, v) ==
  /\ v.shape # "undefined"
  /\ CASE r.kind = "toggle" ->
            \E i \in 1..Len(v.items) :
              v.items[i].id = r.id /\ v.items[i].completed = r.newCompletedState
       [] r.kind = "delete" -> r.id \notin Ids(v.items)
       [] r.kind = "create" -> r.id \in Ids(v.items)
       [] r.kind = "update" ->
            \E i \in 1..Len(v.items) :
              v.items[i].id = r.id /\ v.items[i].title = r.title
       [] OTHER -> TRUE

\* C3 (optimistic visibility): right after a task mutation is invoked, the
\* key the task list is displayed from holds the optimistic result (toggle:
\* flag flipped; delete: task absent; create: new task present).
C3_OptimisticVisibility ==
  [][Len(muts') = Len(muts) + 1
       => optimistic(muts'[Len(muts')], cache'[ListKey])]_vars

\* this step is the refetch of key k storing what its queryFn returned
refetched(k) ==
  /\ fetches[k].status = "inflight"
  /\ fetches'[k].status = "idle"
  /\ muts' = muts

\* C4 (refetch spares pending edits): a refetch of a key does not change the
\* key's value while the value is the optimistic edit of a mutation that is
\* still waiting for its transport.
C4_RefetchSparesPendingEdit ==
  [][\A k \in TaskKeys : \A m \in 1..Len(muts) :
       (/\ refetched(k)
        /\ pending(muts[m]) /\ mutationKey(muts[m].kind) = k
        /\ wrote(muts[m]) /\ cache[k] = muts[m].edited)
         => cache'[k] = cache[k]]_vars

\* this step is the GraphQL call of mutation m coming back without a result
gqlFailed(m) ==
  /\ muts[m].pc = "gql"
  /\ muts'[m].gqlSent = muts[m].gqlSent + 1
  /\ muts'[m].pc # "success"

\* C6 (fallback on any GraphQL failure): for a task mutation whose
\* mutationFn holds a REST fallback, a GraphQL call that fails (network,
\* non-2xx, errors array, malformed JSON, or no result) is followed by the
\* REST call, before any retry or report of failure.
C6_FallbackOnAnyFailure ==
  [][\A m \in 1..Len(muts) :
       (hasFallback(muts[m].kind) /\ gqlFailed(m)) => muts'[m].pc = "rest"]_vars

cached(k) == {cache[k].items[i] : i \in 1..Len(cache[k].items)}

\* C8 (validation gate): no submission with an empty task title or an empty
\* category name has any effect: no mutation (hence no transport call) is
\* started for it, no cache entry holds such a task, and the store holds no
\* such task or category.
C8_ValidationGate ==
  /\ \A m \in 1..Len(muts) :
       muts[m].kind \in {"create", "createCategory"} => muts[m].title # Empty
  /\ \A k \in TaskKeys : \A t \in cached(k) : t.title # Empty
  /\ \A i \in 1..Len(tasks) : tasks[i].title # Empty
  /\ \A i \in 1..Len(categories) : categories[i].name # Empty

\* C8 witness: both forms have turned an empty input down, and nothing was
\* started or written
C8_Witness ==
  /\ formError = {"title", "name"}
  /\ muts = <<>>
  /\ \A k \in Keys : cache[k] = Undefined

\* this step settles a fetch of key k that failed at its transport
settledFailed(k) ==
  /\ fetches[k].status = "inflight"
  /\ fetches'[k].status = "idle"
  /\ muts' = muts
  /\ k \in failed'

\* C9 (failed read keeps the data): when a fetch of a task or category key
\* that holds a last-known collection fails at the transport, the key keeps
\* that value (it is not replaced by an empty collection) and the query shows
\* its error flag.
C9_FailedFetchKeepsData ==
  [][\A k \in Keys :
       (cache[k].items # <<>> /\ settledFailed(k))
         => cache'[k] = cache[k] /\ errorFlag'[k]]_vars

\* C10 (not found ends the mutation): once an update, toggle or delete has
\* got a not-found answer (404 or a null GraphQL result), the mutation is
\* over: rolled back, reported as "not found", and no request follows.
C10_NotFoundEnds ==
  \A m \in 1..Len(muts) :
    (muts[m].kind \in {"toggle", "delete", "update"} /\ muts[m].notFound)
      => /\ muts[m].pc = "error"
         /\ muts[m].toast = "not found"
         /\ cache[mutationKey(muts[m].kind)] = muts[m].before

\* the task of list value v with the given id, as a set of at most one task
byId(v, id) == {t \in {v.items[i] : i \in 1..Len(v.items)} : t.id = id}

\* this step is the reconciling refetch of a committed create: after the
\* timer of onSuccess invalidated '/api/tasks', its queryFn returned the list
reconciles(m) ==
  /\ muts[m].kind = "create" /\ muts[m].pc = "success" /\ muts[m].timer = "fired"
  /\ refetched(KApiTasks)
  /\ KApiTasks \notin failed'

\* C11 (create, then reconcile): right after a create with a valid title the
\* cache holds a task with that title under the temporary id; after the
\* commit and the reconciling refetch the cache holds the same task (title,
\* priority up to letter case, category, completed) under the id the server
\* assigned, and no task with a temporary id.
C11_CreateReconciles ==
  [][/\ (Len(muts') = Len(muts) + 1 /\ muts'[Len(muts')].kind = "create")
        => \E t \in byId(cache'[KApiTasks], muts'[Len(muts')].id) :
             t.title = muts'[Len(muts')].title /\ t.id < 0
     /\ \A m \in 1..Len(muts) :
          reconciles(m)
            => /\ \E t \in byId(cache'[KApiTasks], muts[m].serverId) :
                    /\ t.title = muts[m].title
                    /\ toLowerCase(t.priority) = muts[m].priority
                    /\ t.categoryId = muts[m].categoryId
                    /\ t.completed = FALSE
               /\ \A i \in 1..Len(cache'[KApiTasks].items) :
                    cache'[KApiTasks].items[i].id > 0]_vars

\* this step is the backend carrying out the delete-category of mutation m
deletesCategory(m) ==
  /\ muts[m].kind = "deleteCategory"
  /\ muts[m].pc # "success" /\ muts'[m].pc = "success"

\* C12 (deleting a category keeps the tasks): the step that deletes a
\* category leaves every task that existed before it in the store, those
\* referencing the deleted category included, and takes no task out of the
\* cached task lists.
C12_DeleteCategoryKeepsTasks ==
  [][\A m \in 1..Len(muts) :
       deletesCategory(m)
         => /\ Ids(tasks) \subseteq Ids(tasks') /\ Len(tasks') = Len(tasks)
            /\ \A k \in TaskKeys : cache'[k] = cache[k]]_vars

\* C12 witness: a category that a stored task referenced has been deleted
\* and the task is still stored
C12_Witness ==
  \E m \in 1..Len(muts) :
    /\ muts[m].kind = "deleteCategory" /\ muts[m].pc = "success"
    /\ muts[m].id \notin Ids(categories)
    /\ Len(tasks) = InitTasks
    /\ \E i \in 1..Len(tasks) : tasks[i].categoryId \in {muts[m].id, NoCategory}

\* the ids of the categories whose deletion has been carried out
deletedCategories ==
  {muts[m].id : m \in {n \in 1..Len(muts) :
                         muts[n].kind = "deleteCategory" /\ muts[n].pc = "success"}}

\* this step is a read of the task list from the store
readsTasks(k) == refetched(k) /\ k \notin failed'

\* C13 (tasks of a deleted category read as uncategorized): a read of the
\* task list after a category was deleted returns no task whose reference
\* resolves to a deleted category: a task that referenced one carries no
\* reference or one that resolves to no category of the store, and so not
\* the name of the deleted category.
C13_DeletedCategoryUncategorized ==
  [][\A k \in TaskKeys :
       (readsTasks(k) /\ deletedCategories # {})
         => \A i \in 1..Len(cache'[k].items) :
              LET t == cache'[k].items[i]
              IN (t.categoryId \in deletedCategories \cup {NoCategory})
                   => /\ t.categoryId \notin Ids(categories)
                      /\ categoryName(categories, t.categoryId) = Empty]_vars

\* C13 witness: the task list was read after the deletion of the category
\* its task referenced, and the task is in it
C13_Witness ==
  /\ deletedCategories # {}
  /\ KApiTasks \notin failed
  /\ cache[KApiTasks].shape = "array"
  /\ \E i \in 1..Len(cache[KApiTasks].items) :
       /\ cache[KApiTasks].items[i].id \in 1..InitTasks
       /\ cache[KApiTasks].items[i].categoryId \notin Ids(categories)

\* the toasts onError shows
FailureToasts == {"network error", "error.message"}

\* C14 (every mutation notifies): a mutation that has been invoked shows no
\* toast while it waits for its transport, and once it has ended it has
\* shown a toast: the success toast if it succeeded, a failure toast if it
\* failed.
C14_EveryMutationNotifies ==
  \A m \in 1..Len(muts) :
    CASE muts[m].pc = "success" -> muts[m].toast = "success"
      [] muts[m].pc = "error" -> muts[m].toast \in FailureToasts
      [] OTHER -> pending(muts[m]) /\ muts[m].toast = "none"

\* C14 witness: a delete that succeeded and showed its toast
C14_Witness ==
  \E m \in 1..Len(muts) :
    muts[m].kind = "delete" /\ muts[m].pc = "success" /\ muts[m].toast = "success"

\* the mutations that have invalidated key k
invalidated(k) == {m \in 1..Len(muts) : k \in muts[m].inval}

\* C15 (redundant refetches leave no duplicates): whatever mutations overlap
\* on a task key and however often the key is invalidated and refetched, no
\* id occurs twice in the cached list, and no created task is in it under
\* its temporary id and its server id at once.
C15_NoDuplicates ==
  \A k \in TaskKeys :
    /\ \A i, j \in 1..Len(cache[k].items) :
         cache[k].items[i].id = cache[k].items[j].id => i = j
    /\ \A m \in 1..Len(muts) :
         (muts[m].kind = "create" /\ muts[m].pc = "success")
           => ~({muts[m].id, muts[m].serverId} \subseteq Ids(cache[k].items))

\* C15 witness: two mutations have each invalidated '/api/tasks', and the
\* key has been refetched to the stored list of two tasks
C15_Witness ==
  /\ Cardinality(invalidated(KApiTasks)) >= 2
  /\ cache[KApiTasks] = Array(tasks)
  /\ Len(tasks) >= 2

\* nothing is under way: every mutation has ended and its timer has fired,
\* no fetch is in flight, the task and category queries of TaskContext hold
\* what their last fetch read, and the list on screen is the stored list
settled ==
  /\ \A m \in 1..Len(muts) : ~pending(muts[m]) /\ muts[m].timer # "armed"
  /\ \A k \in Keys : fetches[k].status = "idle"
  /\ \A k \in {KApiTasks, KApiCategories} :
       cache[k].shape = "array" /\ k \notin failed
  /\ cache[ListKey] = Array(tasks)

\* C16 (counts match the task collection): once nothing is under way, the
\* count shown for the 'all' entry is the number of tasks in the list on
\* screen, the count shown for each category is the number of those tasks
\* that reference it, and every category shown is a category of the store.
C16_CountsMatchTasks ==
  settled =>
    \A i \in 1..Len(categoriesShown) :
      LET c == categoriesShown[i]
      IN IF c.entry = "all" THEN c.count = Len(cache[ListKey].items)
         ELSE c.count = categoryCounts(cache[ListKey], c.id)

\* list new is list old with nothing changed but the completed flag of the
\* task with the given id
onlyCompleted(old, new, id) ==
  /\ Len(new) = Len(old)
  /\ \A i \in 1..Len(old) :
       IF old[i].id = id
       THEN [new[i] EXCEPT !.completed = old[i].completed] = old[i]
       ELSE new[i] = old[i]

\* this step carries out the request of toggle m at the backend
commitsToggle(m) ==
  /\ muts[m].kind = "toggle"
  /\ pending(muts[m]) /\ muts'[m].pc = "success"

shape(result) ==
  [idType |-> result.idType,
   priorityCase |-> IF result.priority \in Priorities THEN "lower" ELSE "upper"]

\* the stored task the result of mutation record r is about
resultRow(r) == CHOOSE t \in {tasks[i] : i \in 1..Len(tasks)} : t.id = r.result.id

\* C18 (one representation of results): the task a create, update or toggle
\* returns has the same id type and priority case whichever transport
\* produced it: the result of the transport that answered has the shape the
\* other transport's result for the same task has.
C18_ResultShapeCommon ==
  \A m \in 1..Len(muts) :
    (muts[m].pc = "success" /\ muts[m].result # NoResult
       /\ muts[m].result.id \in Ids(tasks))
      => /\ shape(muts[m].result) = shape(gqlResult(resultRow(muts[m])))
         /\ shape(muts[m].result) = shape(restResult(resultRow(muts[m])))

\* C19 (no task without a title): on every creation path a request with an
\* empty or missing title creates nothing, so every stored task has a
\* non-empty title, one that a create request supplied.
C19_NoTaskWithoutTitle ==
  \A i \in 1..Len(tasks) : tasks[i].title \in Titles \ {Empty}

\* the ids of a list of tasks, in order
ids(ts) == [i \in 1..Len(ts) |-> ts[i].id]

\* the stored tasks whose priority is f, whatever letter case it is stored in
ofPriority(f) == SelectSeq(tasks, LAMBDA t : toLowerCase(t.priority) = f)

\* this step is the queryFn of key k returning the list it was supplied
lists(k) == refetched(k) /\ k \in supplied'

others(ts, id) == SelectSeq(ts, LAMBDA t : t.id # id)

\* the task carries every field of the body
carries(task, body) == \A f \in DOMAIN body : task[f] = body[f]

\* this step is the storage answering a PATCH or DELETE /api/tasks/:id
answered == res'.seq # res.seq /\ res'.status # 500

pair(m, n) ==
  /\ m < n
  /\ muts[m].kind \in TaskMutations /\ muts[n].kind \in TaskMutations
  /\ mutationKey(muts[m].kind) = mutationKey(muts[n].kind)

\* C22 (both of two overlapping mutations fail): once two mutations of one
\* task-list key have both been rejected, in either order, the key holds
\* the value it held before the first of them was invoked.
C22_BothFailRestores ==
  \A m, n \in 1..Len(muts) :
    (pair(m, n) /\ muts[m].pc = "error" /\ muts[n].pc = "error")
      => cache[mutationKey(muts[m].kind)] = muts[m].before

\* C23 (a rollback removes only its own edit): when a mutation is rejected
\* and rolled back, the edit of every mutation of the same key that was
\* invoked after it and has not been rejected, and whose edit the key held,
\* is still held by the key after the rollback.
C23_RollbackOnlyOwnEdit ==
  [][\A m, n \in 1..Len(muts) :
       (rejects(m) /\ pair(m, n) /\ muts[n].pc # "error"
          /\ optimistic(muts[n], cache[mutationKey(muts[n].kind)]))
         => optimistic(muts[n], cache'[mutationKey(muts[n].kind)])]_vars

\* C24 (a delayed invalidation spares pending edits of others): the refetch
\* that the delayed invalidation of a committed mutation started does not
\* remove from the key the optimistic edit of another mutation that is still
\* waiting for its transport.
C24_DelayedRefetchSparesOthers ==
  [][\A k \in TaskKeys : \A m, n \in 1..Len(muts) :
       (/\ refetched(k)
        /\ m # n
        /\ muts[m].timer = "fired" /\ k \in timerKeys(muts[m].kind)
        /\ pending(muts[n]) /\ mutationKey(muts[n].kind) = k
        /\ wrote(muts[n]) /\ optimistic(muts[n], cache[k]))
         => optimistic(muts[n], cache'[k])]_vars

\* C25 (one invocation, at most one task): the store, empty when the page
\* loaded and written by the task form only, never holds more tasks than
\* create mutations have been invoked.
C25_AtMostOneTaskPerCreate ==
  Len(tasks) <= Cardinality({m \in 1..Len(muts) : muts[m].kind = "create"})

\* a transport call of the mutation record has come back
wasSent(r) == r.gqlSent + r.restSent > 0

reportsSuccess(r) == r.pc = "success" /\ r.toast = "success"

\* C27 (success only when accepted): a task mutation that has reported
\* success has sent a request, and the last answer it got is that of a
\* transport that carried the operation out, not an answer that could not be
\* interpreted.
C27_SuccessOnlyIfAccepted ==
  \A m \in 1..Len(muts) :
    (muts[m].kind \in TaskMutations /\ reportsSuccess(muts[m]))
      => wasSent(muts[m]) /\ muts[m].last = "ok"

\* the number of stored tasks of each category, and of none
storeCounts(ts, cs) ==
  [c \in Ids(cs) \cup {NoCategory} |->
     Cardinality({i \in 1..Len(ts) : ts[i].categoryId = c})]

\* this step is a PATCH or DELETE of /api/tasks/:id for an id no task has
missed == res'.seq # res.seq /\ res'.id \notin Ids(tasks)

\* C28 (an unknown id changes nothing): a PATCH or DELETE for an id that no
\* task has leaves the store as it was: the same tasks, none created,
\* modified or removed, the same next id, the same categories and the same
\* number of tasks in each category.
C28_UnknownIdChangesNothing ==
  [][missed =>
       /\ tasks' = tasks
       /\ taskId' = taskId
       /\ categories' = categories
       /\ storeCounts(tasks', categories') = storeCounts(tasks, categories)]_vars

\* C28 witness: a store that holds a task was asked to update an id it had
\* handed out and deleted since, and still holds the task
C28_Witness ==
  /\ res.route = "patch" /\ res.status = 404
  /\ res.id \in 1..(taskId - 1) \ Ids(tasks)
  /\ \E i \in 1..Len(tasks) : tasks[i].title = Milk

\* the source row a target object was created from
sourceOf(rows_, id) == CHOOSE r \in {rows_[i] : i \in 1..Len(rows_)} : r.id = id

\* the target ids of the categories created during the run
migratedCategories == {migration.categories[i].id : i \in 1..Len(migration.categories)}

\* C29 (migrated tasks reference migrated categories): after a migration
\* run, every task created in the target whose source task had a category
\* references the id the target gave to that category during the run, never
\* a source id and never a category that failed to migrate.
C29_TaskReferencesTargetCategory ==
  migration.pc = "done" =>
    \A k \in 1..Len(migration.tasks) :
      LET t == migration.tasks[k]
          c == sourceOf(migration.data.tasks, t.from).categoryId
      IN c # NoCategory =>
           /\ t.categoryId \in migratedCategories
           /\ t.categoryId = migration.categoryIdMapping[c]

\* the ids of the rows rise strictly in the order the rows were created
increasing(rows_) ==
  \A i, j \in 1..Len(rows_) : i < j => rows_[i].id < rows_[j].id

\* an id that appears in the rows is one the counter hands out in this step
fresh(before, after, counter, counter_) ==
  \A id \in Ids(after) \ Ids(before) : counter <= id /\ id < counter_

\* C30 (ids of the in-memory store): after every step the ids of the stored
\* tasks, and of the stored categories, are pairwise different and rise
\* strictly in creation order; an id that appears was taken from the counter
\* in that step, and the counters never fall, so the id of a deleted task or
\* category is never given out again.
C30_IdsUniqueIncreasing ==
  [][/\ increasing(tasks') /\ increasing(categories')
     /\ taskId' >= taskId /\ categoryId' >= categoryId
     /\ fresh(tasks, tasks', taskId, taskId')
     /\ fresh(categories, categories', categoryId, categoryId')]_vars

====
